---- MODULE Spec2Model ----
(***************************************************************************)
(* DockerContainer (cibuildwheel/docker_container.py): one container, one  *)
(* attached shell, and the footer protocol that frames each call's output  *)
(* on the shared byte stream.                                              *)
(*                                                                         *)
(* Bytes are integers 0..255, text is a sequence of code points, the       *)
(* session subprocess's pipes are sequences.  The engine, the remote shell *)
(* and the commands it runs are the environment: their outcomes are        *)
(* nondeterministic choices.                                               *)
(***************************************************************************)
EXTENDS Integers, Sequences, FiniteSets, TLC

(* ------------------------------ bounds -------------------------------- *)
MaxOut == 2        \* longest output, in bytes, one command writes
MaxCalls == 2      \* caller-issued calls over a run
MaxEnters == 2     \* __enter__ invocations over a run

(* --------------------------- byte helpers ----------------------------- *)
None == 0          \* self.name = None; a name is the number of its uuid4 draw
NL == 10           \* b"\n"

\* Bytes a command writes: newline, the digit '4', a UTF-8 lead byte and a
\* continuation byte (0xC3 0xA9 is a valid pair, each alone is not).
OutBytes == {NL, 52, 195, 169}

RECURSIVE SeqsUpTo(_, _)
SeqsUpTo(S, n) ==
    IF n = 0 THEN {<<>>}
    ELSE LET shorter == SeqsUpTo(S, n - 1)
         IN  shorter \cup {Append(s, b) : s \in {t \in shorter : Len(t) = n - 1}, b \in S}

Outputs == SeqsUpTo(OutBytes, MaxOut)

\* Exit statuses a command ends with (0 <= N <= 255).
Statuses == {0, 1, 255}

\* Python slice s[a:b] of a sequence (0-based, negative indices count from
\* the end, out-of-range indices are clipped).
PyIndex(i, n) == IF i < 0 THEN (IF i + n < 0 THEN 0 ELSE i + n) ELSE (IF i > n THEN n ELSE i)
PySlice(s, a, b) ==
    LET lo == PyIndex(a, Len(s))
        hi == PyIndex(b, Len(s))
    IN  IF hi <= lo THEN <<>> ELSE SubSeq(s, lo + 1, hi)

\* bytes.endswith
EndsWith(s, suffix) ==
    /\ Len(suffix) <= Len(s)
    /\ SubSeq(s, Len(s) - Len(suffix) + 1, Len(s)) = suffix

(* ------------------------ footer: format, parse ----------------------- *)
Digit(d) == 48 + d

\* printf "%04d" n : at least 4 decimal digits, zero padded (n >= 0).
RECURSIVE Decimal(_)
Decimal(n) == IF n < 10 THEN <<Digit(n)>> ELSE Append(Decimal(n \div 10), Digit(n % 10))

RECURSIVE ZeroPad(_, _)
ZeroPad(s, width) == IF Len(s) >= width THEN s ELSE ZeroPad(<<Digit(0)>> \o s, width)

Fmt04(n) == ZeroPad(Decimal(n), 4)

IsDigit(b) == b \in 48..57
IsSpace(b) == b \in {9, 10, 11, 12, 13, 32}

RECURSIVE LStrip(_)
LStrip(s) == IF s # <<>> /\ IsSpace(Head(s)) THEN LStrip(Tail(s)) ELSE s

RECURSIVE RStrip(_)
RStrip(s) == IF s # <<>> /\ IsSpace(s[Len(s)]) THEN RStrip(SubSeq(s, 1, Len(s) - 1)) ELSE s

\* Decimal digits with single underscores allowed between digits.
WellFormedDigits(s) ==
    /\ s # <<>>
    /\ \A i \in 1..Len(s) :
          \/ IsDigit(s[i])
          \/ /\ s[i] = 95
             /\ 1 < i /\ i < Len(s)
             /\ IsDigit(s[i - 1]) /\ IsDigit(s[i + 1])

RECURSIVE DigitsValue(_, _)
DigitsValue(s, acc) ==
    IF s = <<>> THEN acc
    ELSE IF Head(s) = 95 THEN DigitsValue(Tail(s), acc)
    ELSE DigitsValue(Tail(s), 10 * acc + (Head(s) - 48))

\* int(b): [ok |-> TRUE, val |-> n], or ok = FALSE where Python raises ValueError.
IntOf(b) ==
    LET t == RStrip(LStrip(b))
        signed == t # <<>> /\ Head(t) \in {43, 45}
        body == IF signed THEN Tail(t) ELSE t
    IN  IF WellFormedDigits(body)
        THEN [ok |-> TRUE,
              val |-> IF signed /\ Head(t) = 45 THEN 0 - DigitsValue(body, 0)
                      ELSE DigitsValue(body, 0)]
        ELSE [ok |-> FALSE, val |-> 0]

\* str(uuid.uuid4()) of the k-th draw of the run, cut down to its last
\* TokenLen characters.  uuid4 draws 122 random bits: the model takes every
\* draw to be new.  The digit '4' is both the text of the 4th draw and a byte
\* commands write (see Legit).
TokenLen == 1      \* characters of a token
Token(k) == [i \in 1..TokenLen |-> IF i < TokenLen THEN 97 ELSE IF k < 10 THEN 48 + k ELSE 87 + k]

\* The footer the remote printf writes for exit status n and token tok.
Footer(n, tok) == Fmt04(n) \o tok \o <<NL>>

(* ----------------- utf8 with errors="surrogateescape" ----------------- *)
IsCont(b) == b \in 128..191

\* Length of the valid UTF-8 sequence at the head of b, 0 when there is none.
Utf8Len(b) ==
    LET c == b[1]
        n == Len(b)
    IN  IF c < 128 THEN 1
        ELSE IF c \in 194..223 /\ n >= 2 /\ IsCont(b[2]) THEN 2
        ELSE IF /\ c \in 224..239 /\ n >= 3 /\ IsCont(b[2]) /\ IsCont(b[3])
                /\ (c = 224 => b[2] >= 160)
                /\ (c = 237 => b[2] <= 159) THEN 3
        ELSE IF /\ c \in 240..244 /\ n >= 4 /\ IsCont(b[2]) /\ IsCont(b[3]) /\ IsCont(b[4])
                /\ (c = 240 => b[2] >= 144)
                /\ (c = 244 => b[2] <= 143) THEN 4
        ELSE 0

Utf8Point(b, k) ==
    CASE k = 1 -> b[1]
      [] k = 2 -> (b[1] - 192) * 64 + (b[2] - 128)
      [] k = 3 -> (b[1] - 224) * 4096 + (b[2] - 128) * 64 + (b[3] - 128)
      [] k = 4 -> (b[1] - 240) * 262144 + (b[2] - 128) * 4096 + (b[3] - 128) * 64 + (b[4] - 128)

\* Decoding with errors="replace": an undecodable byte becomes U+FFFD.
RECURSIVE DecodeReplace(_)
DecodeReplace(b) ==
    IF b = <<>> THEN <<>>
    ELSE LET k == Utf8Len(b)
         IN  IF k = 0 THEN <<65533>> \o DecodeReplace(Tail(b))
             ELSE <<Utf8Point(b, k)>> \o DecodeReplace(SubSeq(b, k + 1, Len(b)))

\* str(b, encoding="utf8", errors="surrogateescape"): an undecodable byte x
\* becomes the lone surrogate U+DC00 + x.
RECURSIVE Decode(_)
Decode(b) ==
    IF b = <<>> THEN <<>>
    ELSE LET k == Utf8Len(b)
         IN  IF k = 0 THEN <<56320 + b[1]>> \o Decode(Tail(b))
             ELSE <<Utf8Point(b, k)>> \o Decode(SubSeq(b, k + 1, Len(b)))

\* bytes(text, encoding="utf8", errors="surrogateescape")
EncodePoint(cp) ==
    IF cp < 128 THEN <<cp>>
    ELSE IF cp < 2048 THEN <<192 + (cp \div 64), 128 + (cp % 64)>>
    ELSE IF cp \in 56448..56575 THEN <<cp - 56320>>
    ELSE IF cp < 65536
         THEN <<224 + (cp \div 4096), 128 + ((cp \div 64) % 64), 128 + (cp % 64)>>
    ELSE <<240 + (cp \div 262144), 128 + ((cp \div 4096) % 64),
           128 + ((cp \div 64) % 64), 128 + (cp % 64)>>

RECURSIVE Encode(_)
Encode(text) == IF text = <<>> THEN <<>> ELSE EncodePoint(Head(text)) \o Encode(Tail(text))

(* ------------------------- files and archives ------------------------- *)
MaxFile == 1       \* longest file, in bytes

FileBytes == {0, NL}
FileNames == {"a", "b"}
Contents == SeqsUpTo(FileBytes, MaxFile)

\* The files of a directory: a set of <<name, data>>, one per name.
NoFile == <<256>>
FilesOf(m) == {<<n, m[n]>> : n \in {k \in DOMAIN m : m[k] # NoFile}}
Dirs == {FilesOf(m) : m \in [FileNames -> Contents \cup {NoFile}]}

\* What a path names.
AbsentNode == [kind |-> "absent", files |-> {}, data |-> <<>>]
DirNode(files) == [kind |-> "dir", files |-> files, data |-> <<>>]
FileNode(data) == [kind |-> "file", files |-> {}, data |-> data]

HostPaths == {"/src", "/f", "/dst"}
FileData == <<255, NL>>             \* what the host file /f holds
TmpArchive == "/tmp/output.tar"     \* /tmp/output-{self.name}.tar
ContainerPaths == {"/work", "/opt", "/data", "/f", TmpArchive}
LocalArchive == "output.tar"        \* output-{self.name}.tar under to_path

\* The image's file system as far as the model looks at it: /opt is there,
\* the other paths are not.
ImageFs == [p \in ContainerPaths |-> IF p = "/opt" THEN DirNode({}) ELSE AbsentNode]

\* An archive is a sequence of bytes: for each file, in name order, the byte
\* of its name, its length, its data.
NameByte(n) == CASE n = "a" -> 97 [] n = "b" -> 98 [] OTHER -> 111
ByteName(b) == CASE b = 97 -> "a" [] b = 98 -> "b" [] OTHER -> "?"

\* tar -c of a directory.
RECURSIVE TarCreate(_)
TarCreate(files) ==
    IF files = {} THEN <<>>
    ELSE LET f == CHOOSE f \in files : \A g \in files : NameByte(f[1]) <= NameByte(g[1])
         IN  <<NameByte(f[1]), Len(f[2])>> \o f[2] \o TarCreate(files \ {f})

\* tar -x into a directory that holds files: a member replaces the file of
\* its name; a truncated member ends the extraction.
RECURSIVE TarExtract(_, _)
TarExtract(b, files) ==
    IF Len(b) < 2 \/ Len(b) < 2 + b[2] THEN files
    ELSE LET member == <<ByteName(b[1]), SubSeq(b, 3, 2 + b[2])>>
         IN  TarExtract(SubSeq(b, 3 + b[2], Len(b)),
                        {g \in files : g[1] # member[1]} \cup {member})

\* A pipe through a terminal (exec -t): each newline arrives as CR LF.
RECURSIVE PipeTty(_)
PipeTty(b) ==
    IF b = <<>> THEN <<>>
    ELSE (IF Head(b) = NL THEN <<13, NL>> ELSE <<Head(b)>>) \o PipeTty(Tail(b))

\* The shell pipe into or out of `exec -i`: the bytes pass as they are.
Pipe(b) == b

(* ------------------------------- state -------------------------------- *)
VARIABLES
    pc,           \* where the thread that owns the session is
    docker_image, \* self.docker_image
    self_cwd,     \* self.cwd
    name,         \* self.name
    containers,   \* names of the containers that exist in the engine
    engineLog,    \* engine invocations made so far, in order
    process,      \* self.process: "none", "running", "dead", "reaped"
    bash_stdin,   \* self.bash_stdin: "none", "open", "closed"
    stdin_pipe,   \* fragments written to the input sink, not yet run
    bash_stdout,  \* bytes on the output source, not yet read
    call,         \* per caller: the frame of its call()
    ran,          \* per caller: what the shell did for its fragment
    exc,          \* the error in flight when the with block is left
    propagated,   \* the error the last operation raised to its caller
    uuids,        \* uuid4 values drawn so far
    oci_exe,      \* self.oci_exe
    host,         \* host file system: path -> node
    cfs,          \* file system of the session's container: path -> node
    xfer,         \* the frame of copy_into / copy_out
    reader,       \* a process left behind by a command holds the shell's input
    shell,        \* the persistent shell: its directory and its environment
    probed,       \* the cwd and env arguments of the probe calls, in order
    nCalls, nEnters

vars == <<pc, docker_image, self_cwd, name, containers, engineLog, process,
          bash_stdin, stdin_pipe, bash_stdout, call, ran, exc, propagated,
          uuids, oci_exe, host, cfs, xfer, reader, shell, probed,
          nCalls, nEnters>>

Callers == {1, 2}      \* 1 owns the session; 2 is another thread
Unset == "None"        \* an optional argument left at None

Images == {"", "manylinux"}
SessionCwds == {Unset, "/work"}
CallCwds == {Unset, "", "/opt"}
ArgVectors == {<<"cmd", "a">>}
NoEnv == [given |-> FALSE, items |-> <<>>]
Envs == {NoEnv, [given |-> TRUE, items |-> <<<<"TEST_VAR", "1">>>>]}

NoErr == [type |-> "none", cmd |-> <<>>, returncode |-> 0, output |-> <<>>]
Error(type, cmd, returncode, output) ==
    [type |-> type, cmd |-> cmd, returncode |-> returncode, output |-> output]

IdleCall ==
    [st |-> "idle", args |-> <<>>, capture |-> FALSE, token |-> <<>>,
     output_io |-> <<>>, footers |-> 0, returncode |-> 0, output |-> <<>>,
     err |-> NoErr, after |-> "first", eof |-> FALSE]
NotRun == [valid |-> FALSE, out |-> <<>>, status |-> 0, cd_failed |-> FALSE]

OciExes == {"docker", "podman"}

\* The shell the engine starts in a new container (/bin/bash, line 138): it
\* is in the image's working directory, with the image's environment, where
\* TEST_VAR is not set.
ImageShell == [dir |-> "/", env |-> <<>>]

\* Commands that show where and with what they run: pwd, and a shell that
\* echoes TEST_VAR.
Pwd == <<"pwd">>
EchoTestVar == <<"sh", "-c", "echo $TEST_VAR">>
Probes == {Pwd, EchoTestVar}
ProbeCwds == {"", "/opt", "/missing"}

\* The bytes of the texts the probes write.
Utf8(text) ==
    CASE text = "" -> <<>>
      [] text = "1" -> <<49>>
      [] text = "/" -> <<47>>
      [] text = "/opt" -> <<47, 111, 112, 116>>
      [] text = "/work" -> <<47, 119, 111, 114, 107>>
      [] OTHER -> <<63>>
IdleXfer == [op |-> "none", st |-> "idle", steps |-> <<>>, copied |-> FALSE]

\* A frame whose output buffer outlives the call.
ForgetKeepsOutput(frame) ==
    [IdleCall EXCEPT !.after = IF frame.st = "idle" THEN frame.after ELSE frame.st,
                     !.output_io = frame.output_io]

\* The frame of a call is gone once the caller moved on; what stays is how
\* the call ended.
Forget(frame) ==
    [IdleCall EXCEPT !.after = IF frame.st = "idle" THEN frame.after ELSE frame.st]

Init ==
    /\ pc = "new"
    /\ docker_image = ""
    /\ self_cwd = Unset
    /\ name = None
    /\ containers = {}
    /\ engineLog = <<>>
    /\ process = "none"
    /\ bash_stdin = "none"
    /\ stdin_pipe = <<>>
    /\ bash_stdout = <<>>
    /\ call = [c \in Callers |-> IdleCall]
    /\ ran = [c \in Callers |-> NotRun]
    /\ exc = NoErr
    /\ propagated = NoErr
    /\ uuids = 0
    /\ oci_exe = "docker"
    /\ host = [p \in HostPaths |-> AbsentNode]
    /\ cfs = ImageFs
    /\ xfer = IdleXfer
    /\ reader = FALSE
    /\ shell = ImageShell
    /\ probed = <<>>
    /\ nCalls = 0
    /\ nEnters = 0

(* ------------------------------ __init__ ------------------------------ *)
Construct(image, cwd, exe) ==
    /\ pc = "new"
    /\ IF image = ""
       THEN /\ pc' = "init_failed"
            /\ propagated' = Error("ValueError", <<>>, 0, <<>>)
            /\ UNCHANGED <<docker_image, self_cwd, name, oci_exe>>
       ELSE /\ pc' = "constructed"
            /\ docker_image' = image
            /\ self_cwd' = cwd
            /\ name' = None
            /\ oci_exe' = exe
            /\ UNCHANGED propagated
    /\ UNCHANGED <<containers, engineLog, process, bash_stdin, stdin_pipe,
                   bash_stdout, call, ran, exc, uuids, nCalls, nEnters>>
    /\ UNCHANGED <<host, cfs, xfer, reader, shell, probed>>

(* -------------------------------- call -------------------------------- *)
Truthy(s) == s # Unset /\ s # ""

\* A resolution that treats the empty per-call cwd like an unset one.
ChdirOrDefault(cwd, default) ==
    LET eff == IF Truthy(cwd) THEN cwd ELSE default
    IN  IF Truthy(eff) THEN <<"cd", eff>> ELSE <<>>

\* Lines 305-310: the directory change call() emits, <<>> for none.
Chdir(cwd, default) ==
    LET eff == IF cwd = Unset THEN default ELSE cwd
    IN  IF Truthy(eff) THEN <<"cd", eff>> ELSE <<>>

\* Lines 311-315.
EnvAssignments(env) == IF env.given THEN env.items ELSE <<>>

\* Lines 329-340: the fragment written to the input sink.  cwd is the
\* caller's argument, kept beside what was emitted for it.
Fragment(args, env, cwd, token) ==
    [chdir |-> Chdir(cwd, self_cwd),
     env_assignments |-> EnvAssignments(env),
     command |-> args,
     token |-> token,
     cwd |-> cwd]

\* Lines 305-346 for caller c: draw the token, write and flush the fragment,
\* open the output buffer.  Writing to a subprocess that has exited raises
\* BrokenPipeError.
CallWrite(c, args, env, capture, cwd) ==
    LET token == Token(uuids + 1)
        frame == [Forget(call[c]) EXCEPT !.args = args, !.capture = capture,
                                         !.token = token]
    IN  /\ uuids' = uuids + 1
        /\ ran' = [ran EXCEPT ![c] = NotRun]
        /\ IF process = "running"
           THEN /\ stdin_pipe' = Append(stdin_pipe, Fragment(args, env, cwd, token))
                /\ call' = [call EXCEPT ![c] = [frame EXCEPT !.st = "reading"]]
           ELSE /\ stdin_pipe' = stdin_pipe
                /\ call' = [call EXCEPT ![c] =
                               [frame EXCEPT !.st = "raised",
                                             !.err = Error("BrokenPipeError", <<>>, 0, <<>>)]]

\* Index of the first newline of s, 0 when there is none.
FirstNL(s) == IF \E i \in 1..Len(s) : s[i] = NL
              THEN CHOOSE i \in 1..Len(s) : s[i] = NL /\ \A j \in 1..(i - 1) : s[j] # NL
              ELSE 0

\* Line 351: is this line the footer of the call that drew token?
IsFooter(line, token) == EndsWith(line, token \o <<NL>>)

\* A footer offset that forgets the newline at the end of the line.
FooterOffsetNoNewline(line, token) == Len(line) - Len(token) - 4

\* Lines 353-358.
FooterOffset(line, token) == Len(line) - 1 - Len(token) - 4

\* A call that hands back what it read whether it captures or not.
OutputTextAlways(capture, output_io) == Decode(output_io)

\* Lines 368-371.
OutputText(capture, output_io) == IF capture THEN Decode(output_io) ELSE <<>>

\* Lines 351-376 on the footer line: parse the status, keep the bytes before
\* it, build the result, return or raise.
Finish(frame, line) ==
    LET footer_offset == FooterOffset(line, frame.token)
        returncode == IntOf(PySlice(line, footer_offset, footer_offset + 4))
        output_io == frame.output_io \o PySlice(line, 0, footer_offset)
        output == OutputText(frame.capture, output_io)
    IN  IF ~returncode.ok
        THEN [frame EXCEPT !.st = "raised", !.footers = @ + 1,
                           !.err = Error("ValueError", <<>>, 0, <<>>)]
        ELSE IF returncode.val # 0
        THEN [frame EXCEPT !.st = "raised", !.footers = @ + 1,
                           !.output_io = output_io,
                           !.returncode = returncode.val,
                           !.err = Error("CalledProcessError", frame.args,
                                         returncode.val, output)]
        ELSE [frame EXCEPT !.st = "returned", !.footers = @ + 1,
                           !.output_io = output_io,
                           !.returncode = returncode.val,
                           !.output = output]

\* Lines 348-366, one turn of the loop: readline() returns the bytes up to and
\* including the next newline; at end-of-stream it returns what is left,
\* b"" from then on, and the loop goes on reading (eof records that a read
\* returned b""; reading b"" again changes nothing).
ReadLine(c) ==
    /\ call[c].st = "reading"
    /\ LET i == FirstNL(bash_stdout)
           n == IF i > 0 THEN i ELSE Len(bash_stdout)
           line == SubSeq(bash_stdout, 1, n)
       IN  /\ i > 0 \/ process # "running"
           /\ bash_stdout' = SubSeq(bash_stdout, n + 1, Len(bash_stdout))
           /\ IF IsFooter(line, call[c].token)
              THEN call' = [call EXCEPT ![c] = Finish(call[c], line)]
              ELSE call' = [call EXCEPT ![c].output_io = @ \o line,
                                        ![c].eof = @ \/ line = <<>>]
    /\ UNCHANGED <<pc, docker_image, self_cwd, name, containers, engineLog,
                   process, bash_stdin, stdin_pipe, ran, exc, propagated, uuids,
                   nCalls, nEnters>>
    /\ UNCHANGED <<oci_exe, host, cfs, xfer, reader, shell, probed>>

(* -------------------------- the remote shell -------------------------- *)
\* What a command writes holds no line that ends with the token of its own
\* invocation (section 3 of the specification: the token never collides with
\* legitimate output).
Legit(out, token) ==
    ~\E i \in 1..Len(out) :
        /\ i > Len(token)
        /\ SubSeq(out, i - Len(token), i) = token \o <<NL>>

\* The cd of a fragment fails when the directory is not there; the shell goes
\* on to the next line of the fragment either way.
CdFails(frag) ==
    /\ frag.chdir # <<>>
    /\ ~(frag.chdir[2] \in DOMAIN cfs /\ cfs[frag.chdir[2]].kind = "dir")

\* Line 332: the directory the command of a fragment runs in, that of the
\* group's cd when there is one and it succeeded, the shell's otherwise.
RunDir(frag) ==
    IF frag.chdir # <<>> /\ ~CdFails(frag) THEN frag.chdir[2] ELSE shell.dir

\* Line 333: env runs the command with the shell's environment and the
\* assignments of the call after it.
RunEnv(frag) == shell.env \o frag.env_assignments

\* The value of a variable in an environment, the empty text when it is not
\* set; of two assignments the later one counts.
RECURSIVE EnvValue(_, _)
EnvValue(items, key) ==
    IF items = <<>> THEN ""
    ELSE IF items[Len(items)][1] = key THEN items[Len(items)][2]
    ELSE EnvValue(SubSeq(items, 1, Len(items) - 1), key)

\* What the command of a fragment may write: /bin/true and mkdir -p write
\* nothing to their output, pwd writes its directory, the echo of TEST_VAR
\* its value, any other command writes anything legitimate.
CommandOutputs(frag) ==
    IF Head(frag.command) \in {"/bin/true", "mkdir"}
    THEN {<<>>}
    ELSE IF frag.command = Pwd
    THEN {out \in {Utf8(RunDir(frag)) \o <<NL>>} : Legit(out, frag.token)}
    ELSE IF frag.command = EchoTestVar
    THEN {out \in {Utf8(EnvValue(RunEnv(frag), "TEST_VAR")) \o <<NL>>} : Legit(out, frag.token)}
    ELSE {out \in Outputs : Legit(out, frag.token)}

\* The statuses the command of a fragment may end with: the probes succeed.
CommandStatuses(frag) == IF frag.command \in Probes THEN {0} ELSE Statuses

\* A fragment that chains the command to the cd with &&.
RunsCommandIfCdOk(cd_failed) == ~cd_failed

\* Lines 332-333: the cd and the command are two lines of the group, so the
\* command runs whether the cd failed or not.
RunsCommand(cd_failed) == TRUE

\* A fragment run without the ( ) around it: its cd moves the shell.
NoSubshell(sh, dir) == [sh EXCEPT !.dir = dir]

\* Lines 331-335: the fragment is a ( ) group, run in a subshell; its cd and
\* the assignments given to env end with it and the shell is as it was.
Subshell(sh, dir) == sh

\* A mkdir that creates nothing.
MkdirNothing(path, status) == cfs

\* What mkdir -p that exited with status does to the file system.
Mkdir(path, status) ==
    IF status = 0 /\ cfs[path].kind = "absent"
    THEN [cfs EXCEPT ![path] = DirNode({})]
    ELSE cfs

\* A shell that stops at the first failing line of a fragment.
TrailerUnlessFailed(cd_failed, status) == ~cd_failed /\ status = 0

\* Lines 331-335: the lines of the fragment are grouped in ( ), with no && and
\* no set -e, so printf runs after the command whatever failed before it.
TrailerRuns(cd_failed, status) == TRUE

\* Lines 331-335 as the shell runs them: the cd if there is one, the command,
\* which writes out and ends with status, then printf, which writes the
\* footer.  The command inherits the shell's input stream; it may leave a
\* process behind that holds it (leaves_reader).
ShellRun(leaves_reader) ==
    /\ process = "running"
    /\ stdin_pipe # <<>>
    /\ LET frag == Head(stdin_pipe)
           runs == RunsCommand(CdFails(frag))
       IN  \E o \in CommandOutputs(frag), s \in CommandStatuses(frag) :
             LET out == IF runs THEN o ELSE <<>>
                 status == IF runs THEN s ELSE 1     \* $? of the cd
             IN  /\ bash_stdout' = bash_stdout \o out \o
                                      (IF TrailerRuns(CdFails(frag), status)
                                       THEN Footer(status, frag.token) ELSE <<>>)
                 /\ ran' = [c \in Callers |->
                              IF call[c].st = "reading" /\ call[c].token = frag.token
                              THEN [valid |-> TRUE, out |-> out, status |-> status,
                                    cd_failed |-> CdFails(frag)]
                              ELSE ran[c]]
                 /\ cfs' = IF runs /\ Head(frag.command) = "mkdir"
                           THEN Mkdir(frag.command[3], status)
                           ELSE cfs
                 /\ shell' = Subshell(shell, RunDir(frag))
    /\ stdin_pipe' = Tail(stdin_pipe)
    /\ reader' = (reader \/ leaves_reader)
    /\ UNCHANGED <<pc, docker_image, self_cwd, name, containers, engineLog,
                   process, bash_stdin, call, exc, propagated, uuids, nCalls,
                   nEnters>>
    /\ UNCHANGED <<oci_exe, host, xfer, probed>>

\* The shell runs a fragment whose command leaves nothing behind.
ShellExec == ShellRun(FALSE)

\* The shell runs a fragment whose command starts a process that outlives it
\* and reads the input stream it inherited, writing what it reads to its
\* output.
ShellExecDaemon ==
    /\ stdin_pipe # <<>>
    /\ Head(stdin_pipe).command \in ArgVectors
    /\ ShellRun(TRUE)

\* The text of a fragment from the trailer on, as written at lines 334-335
\* without the indentation: printf "%04d%s, a newline, " $? <token>, a newline,
\* the closing parenthesis, a newline.
TrailerText(token) ==
    <<112, 114, 105, 110, 116, 102, 32, 34, 37, 48, 52, 100, 37, 115, NL>>
        \o <<34, 32, 36, 63, 32>> \o token \o <<NL>>
        \o <<41, NL>>

\* The process left behind reads the next fragment from the input stream
\* before the shell does and writes it to the output source.
ReaderEcho ==
    /\ reader
    /\ process = "running"
    /\ stdin_pipe # <<>>
    /\ bash_stdout' = bash_stdout \o TrailerText(Head(stdin_pipe).token)
    /\ stdin_pipe' = Tail(stdin_pipe)
    /\ UNCHANGED <<pc, docker_image, self_cwd, name, containers, engineLog,
                   process, bash_stdin, call, ran, exc, propagated, uuids,
                   nCalls, nEnters, oci_exe, host, cfs, xfer, reader, shell, probed>>

\* The shell, the container or the session subprocess dies: a command under
\* way may have written part of its output, no footer follows, the output
\* source reaches end-of-stream after the bytes already written.
ShellDies ==
    /\ process = "running"
    /\ process' = "dead"
    /\ \E out \in {o \in Outputs : Len(o) <= 1} :
         /\ (out # <<>> => stdin_pipe # <<>> /\ out \in CommandOutputs(Head(stdin_pipe)))
         /\ bash_stdout' = bash_stdout \o out
    /\ stdin_pipe' = <<>>
    /\ UNCHANGED <<pc, docker_image, self_cwd, name, containers, engineLog,
                   bash_stdin, call, ran, exc, propagated, uuids, nCalls,
                   nEnters>>
    /\ UNCHANGED <<oci_exe, host, cfs, xfer, reader, shell, probed>>

(* ------------------------------ __enter__ ----------------------------- *)
\* shlex.split(oci_extra_args_common), line 130.
CommonArgs == <<"--cgroup-manager=cgroupfs">>

\* The options of the engine invocations (lines 141-155, 159-169, 212); the
\* container's name is kept beside them.
CreateArgv == <<"create", "--env=CIBUILDWHEEL", "--name", "--interactive">> \o CommonArgs
                  \o <<"--volume=/:/host:Z", "image", "/bin/bash">>
StartArgv == <<"start", "--attach", "--interactive">> \o CommonArgs
RmArgv == <<"rm">> \o CommonArgs \o <<"--force", "-v">>

AtRest(c) == call[c].st # "reading"

\* subprocess.run without check=True never raises on a nonzero exit.
RunUnchecked(ok) == FALSE

\* subprocess.run(..., check=True) raises CalledProcessError exactly when the
\* engine exits nonzero (line 156).
RunChecked(ok) == ~ok

\* Lines 137-157: draw the name, run the engine's create with check=True.
EnterCreate ==
    /\ pc \in {"constructed", "closed"} \/ (pc = "body" /\ AtRest(1))
    /\ nEnters < MaxEnters
    /\ nEnters' = nEnters + 1
    /\ uuids' = uuids + 1
    /\ name' = uuids + 1
    /\ exc' = NoErr
    /\ \E ok \in BOOLEAN :
         /\ engineLog' = Append(engineLog, [op |-> "create", name |-> name', ok |-> ok, argv |-> CreateArgv])
         /\ containers' = IF ok THEN containers \cup {name'} ELSE containers
         /\ IF RunChecked(ok)
            THEN /\ pc' = "enter_failed"
                 /\ propagated' = Error("CalledProcessError", <<"create">>, 1, <<>>)
            ELSE /\ pc' = "enter_start"
                 /\ propagated' = NoErr
    /\ call' = [call EXCEPT ![1] = Forget(@)]
    /\ ran' = [ran EXCEPT ![1] = NotRun]
    /\ cfs' = ImageFs
    /\ UNCHANGED <<docker_image, self_cwd, process, bash_stdin, stdin_pipe,
                   bash_stdout, nCalls>>
    /\ UNCHANGED <<oci_exe, host, xfer, reader, shell, probed>>

\* Lines 158-176: Popen of the engine's start --attach --interactive.
EnterStart ==
    /\ pc = "enter_start"
    /\ \E ok \in BOOLEAN :
         IF ok
         THEN /\ engineLog' = Append(engineLog, [op |-> "start", name |-> name, ok |-> TRUE, argv |-> StartArgv])
              /\ process' = "running"
              /\ bash_stdin' = "open"
              /\ stdin_pipe' = <<>>
              /\ bash_stdout' = <<>>
              /\ shell' = ImageShell
              /\ pc' = "enter_sync"
              /\ UNCHANGED propagated
         ELSE /\ pc' = "enter_failed"
              /\ propagated' = Error("OSError", <<"start">>, 0, <<>>)
              /\ UNCHANGED <<engineLog, process, bash_stdin, stdin_pipe, bash_stdout, shell>>
    /\ UNCHANGED <<docker_image, self_cwd, name, containers, call, ran, exc,
                   uuids, nCalls, nEnters>>
    /\ UNCHANGED <<oci_exe, host, cfs, xfer, reader, probed>>

\* Line 179: self.call(["/bin/true"], cwd=""), up to its read loop.
EnterNoop ==
    /\ pc = "enter_sync"
    /\ CallWrite(1, <<"/bin/true">>, NoEnv, FALSE, "")
    /\ pc' = "enter_noop"
    /\ UNCHANGED <<docker_image, self_cwd, name, containers, engineLog, process,
                   bash_stdin, bash_stdout, exc, propagated, nCalls, nEnters>>
    /\ UNCHANGED <<oci_exe, host, cfs, xfer, reader, shell, probed>>

\* Lines 179-187 once the no-op call is over: its error leaves __enter__;
\* otherwise mkdir -p of the configured directory, or return self.
EnterNoopDone ==
    /\ pc = "enter_noop"
    /\ call[1].st \in {"returned", "raised"}
    /\ IF call[1].st = "raised"
       THEN /\ pc' = "enter_failed"
            /\ propagated' = call[1].err
            /\ UNCHANGED <<stdin_pipe, call, ran, uuids>>
       ELSE IF Truthy(self_cwd)
       THEN /\ CallWrite(1, <<"mkdir", "-p", self_cwd>>, NoEnv, FALSE, "")
            /\ pc' = "enter_mkdir"
            /\ UNCHANGED propagated
       ELSE /\ pc' = "body"
            /\ UNCHANGED <<stdin_pipe, call, ran, uuids, propagated>>
    /\ UNCHANGED <<docker_image, self_cwd, name, containers, engineLog, process,
                   bash_stdin, bash_stdout, exc, nCalls, nEnters>>
    /\ UNCHANGED <<oci_exe, host, cfs, xfer, reader, shell, probed>>

\* Lines 185-187 once the mkdir call is over.
EnterMkdirDone ==
    /\ pc = "enter_mkdir"
    /\ call[1].st \in {"returned", "raised"}
    /\ IF call[1].st = "raised"
       THEN /\ pc' = "enter_failed"
            /\ propagated' = call[1].err
       ELSE /\ pc' = "body"
            /\ UNCHANGED propagated
    /\ UNCHANGED <<docker_image, self_cwd, name, containers, engineLog, process,
                   bash_stdin, stdin_pipe, bash_stdout, call, ran, exc, uuids,
                   nCalls, nEnters>>
    /\ UNCHANGED <<oci_exe, host, cfs, xfer, reader, shell, probed>>

(* ------------------------- calls by the callers ----------------------- *)
\* A call() made inside the with block by the thread that owns the session.
\* Calling again after a call raised means the caller caught the error.
BodyCall ==
    /\ pc = "body"
    /\ AtRest(1)
    /\ nCalls < MaxCalls
    /\ nCalls' = nCalls + 1
    /\ \E args \in ArgVectors, env \in Envs, capture \in BOOLEAN, cwd \in CallCwds :
         CallWrite(1, args, env, capture, cwd)
    /\ UNCHANGED <<pc, docker_image, self_cwd, name, containers, engineLog,
                   process, bash_stdin, bash_stdout, exc, propagated, nEnters>>
    /\ UNCHANGED <<oci_exe, host, cfs, xfer, reader, shell, probed>>

\* A call() of the owner with a cwd that is not in the container.
MissingDirCall ==
    /\ pc = "body"
    /\ AtRest(1)
    /\ nCalls < MaxCalls
    /\ nCalls' = nCalls + 1
    /\ \E args \in ArgVectors, capture \in BOOLEAN :
         CallWrite(1, args, NoEnv, capture, "/missing")
    /\ UNCHANGED <<pc, docker_image, self_cwd, name, containers, engineLog,
                   process, bash_stdin, bash_stdout, exc, propagated, nEnters>>
    /\ UNCHANGED <<oci_exe, host, cfs, xfer, reader, shell, probed>>

\* A capturing call() of the owner that runs a probe, with any cwd and env,
\* which the caller keeps a record of.
ProbeCall ==
    /\ pc = "body"
    /\ AtRest(1)
    /\ nCalls < MaxCalls
    /\ nCalls' = nCalls + 1
    /\ \E args \in Probes, env \in Envs, cwd \in ProbeCwds :
         /\ CallWrite(1, args, env, TRUE, cwd)
         /\ probed' = Append(probed, [cwd |-> cwd, env |-> env])
    /\ UNCHANGED <<pc, docker_image, self_cwd, name, containers, engineLog,
                   process, bash_stdin, bash_stdout, exc, propagated, nEnters>>
    /\ UNCHANGED <<oci_exe, host, cfs, xfer, reader, shell>>

\* A call() made by another thread while the with block is open.
ThreadCall ==
    /\ pc = "body"
    /\ AtRest(2)
    /\ nCalls < MaxCalls
    /\ nCalls' = nCalls + 1
    /\ \E capture \in BOOLEAN : CallWrite(2, <<"cmd", "b">>, NoEnv, capture, Unset)
    /\ UNCHANGED <<pc, docker_image, self_cwd, name, containers, engineLog,
                   process, bash_stdin, bash_stdout, exc, propagated, nEnters>>
    /\ UNCHANGED <<oci_exe, host, cfs, xfer, reader, shell, probed>>

(* ------------------------------ copy_into ----------------------------- *)
CallerUnchanged ==
    UNCHANGED <<docker_image, self_cwd, name, containers, engineLog, process,
                bash_stdin, bash_stdout, exc, oci_exe, reader, shell, probed,
                nEnters>>

\* The program using the session writes the directory /src and the file /f on
\* the host before it copies them.
HostPrepare(files) ==
    /\ pc = "body"
    /\ AtRest(1)
    /\ host["/src"].kind = "absent"
    /\ host' = [host EXCEPT !["/src"] = DirNode(files), !["/f"] = FileNode(FileData)]
    /\ CallerUnchanged
    /\ UNCHANGED <<pc, stdin_pipe, call, ran, propagated, uuids, cfs, xfer, nCalls>>

\* Lines 223-224, copy_into(/src, /data) of a directory: the mkdir -p call, up
\* to its read loop.
CopyIntoDir ==
    /\ pc = "body"
    /\ AtRest(1)
    /\ host["/src"].kind = "dir"
    /\ nCalls < MaxCalls
    /\ nCalls' = nCalls + 1
    /\ CallWrite(1, <<"mkdir", "-p", "/data">>, NoEnv, FALSE, Unset)
    /\ pc' = "copy_mkdir"
    /\ xfer' = [xfer EXCEPT !.op = "into", !.st = "running", !.steps = <<"mkdir">>]
    /\ propagated' = NoErr
    /\ CallerUnchanged
    /\ UNCHANGED <<host, cfs>>

\* An error of the mkdir call that copy_into does not let through.
MkdirIgnored(frame) == FALSE

\* Line 224: the error of the mkdir call leaves copy_into.
MkdirRaised(frame) == frame.st = "raised"

\* Lines 224-234 once the mkdir call is over: the tar pipeline into the
\* engine's exec, run with check=True.
CopyIntoTar ==
    /\ pc = "copy_mkdir"
    /\ call[1].st \in {"returned", "raised"}
    /\ pc' = "body"
    /\ IF MkdirRaised(call[1])
       THEN /\ xfer' = [xfer EXCEPT !.st = "raised"]
            /\ propagated' = call[1].err
            /\ cfs' = cfs
       ELSE \E ok \in BOOLEAN :
              /\ xfer' = [xfer EXCEPT !.st = IF ok THEN "returned" ELSE "raised",
                                      !.steps = Append(@, "tar"),
                                      !.copied = @ \/ ok]
              /\ propagated' = IF RunChecked(ok)
                               THEN Error("CalledProcessError", <<"tar">>, 1, <<>>)
                               ELSE NoErr
              /\ cfs' = IF ok /\ cfs["/data"].kind = "dir"
                        THEN [cfs EXCEPT !["/data"] =
                                 DirNode(TarExtract(Pipe(TarCreate(host["/src"].files)), @.files))]
                        ELSE cfs
    /\ CallerUnchanged
    /\ UNCHANGED <<stdin_pipe, call, ran, uuids, host, nCalls>>

\* Lines 235-240, copy_into(/f, /f) of a path that is not a directory: cat
\* into the engine's exec, run with check=True.  The pipeline ends with the
\* status of the exec.
CopyIntoFile ==
    /\ pc = "body"
    /\ AtRest(1)
    /\ host["/f"].kind # "dir"
    /\ \E ok \in BOOLEAN :
         /\ xfer' = [xfer EXCEPT !.op = "into_file",
                                 !.st = IF ok THEN "returned" ELSE "raised",
                                 !.steps = <<"cat">>]
         /\ propagated' = IF RunChecked(ok)
                          THEN Error("CalledProcessError", <<"cat">>, 1, <<>>)
                          ELSE NoErr
         /\ cfs' = IF ok THEN [cfs EXCEPT !["/f"] = FileNode(Pipe(host["/f"].data))]
                   ELSE cfs
    /\ CallerUnchanged
    /\ UNCHANGED <<pc, stdin_pipe, call, ran, uuids, host, nCalls>>

(* ------------------------------ copy_out ------------------------------ *)
\* A step of copy_out(/data, /dst) run with check=True failed.
CopyOutRaise(step) ==
    /\ xfer' = [xfer EXCEPT !.st = "raised", !.steps = Append(@, step)]
    /\ propagated' = Error("CalledProcessError", <<step>>, 1, <<>>)
    /\ pc' = "body"

\* The files of a directory without, or with, the one of a given name.
Without(files, fname) == {f \in files : f[1] # fname}
WithFile(files, fname, data) == Without(files, fname) \cup {<<fname, data>>}

\* Line 244: to_path.mkdir(parents=True, exist_ok=True).
CopyOutMkdir ==
    /\ pc = "body"
    /\ AtRest(1)
    /\ host["/dst"].kind # "file"
    /\ host' = [host EXCEPT !["/dst"] = IF @.kind = "absent" THEN DirNode({}) ELSE @]
    /\ xfer' = [xfer EXCEPT !.op = "out", !.st = "running", !.steps = <<"mkdir">>]
    /\ propagated' = NoErr
    /\ pc' = IF oci_exe = "podman" THEN "copy_out_archive" ELSE "copy_out_stream"
    /\ CallerUnchanged
    /\ UNCHANGED <<stdin_pipe, call, ran, uuids, cfs, nCalls>>

\* Lines 270-277 (docker): the remote tar -c piped into a local tar -x.
CopyOutStream ==
    /\ pc = "copy_out_stream"
    /\ \E ok \in BOOLEAN :
         IF ok /\ cfs["/data"].kind = "dir"
         THEN /\ host' = [host EXCEPT !["/dst"] =
                             DirNode(TarExtract(Pipe(TarCreate(cfs["/data"].files)), @.files))]
              /\ xfer' = [xfer EXCEPT !.st = "returned", !.steps = Append(@, "stream")]
              /\ pc' = "body"
              /\ UNCHANGED propagated
         ELSE /\ CopyOutRaise("stream")
              /\ UNCHANGED host
    /\ CallerUnchanged
    /\ UNCHANGED <<stdin_pipe, call, ran, uuids, cfs, nCalls>>

\* Lines 246-253 (podman): tar -c of the directory to the temp file inside
\* the container.
CopyOutArchive ==
    /\ pc = "copy_out_archive"
    /\ \E ok \in BOOLEAN :
         IF ok /\ cfs["/data"].kind = "dir"
         THEN /\ cfs' = [cfs EXCEPT ![TmpArchive] = FileNode(TarCreate(cfs["/data"].files))]
              /\ xfer' = [xfer EXCEPT !.steps = Append(@, "archive")]
              /\ pc' = "copy_out_fetch"
              /\ UNCHANGED propagated
         ELSE /\ CopyOutRaise("archive")
              /\ UNCHANGED cfs
    /\ CallerUnchanged
    /\ UNCHANGED <<stdin_pipe, call, ran, uuids, host, nCalls>>

\* Lines 255-261: the engine's cp of the temp file to to_path.
CopyOutFetch ==
    /\ pc = "copy_out_fetch"
    /\ \E ok \in BOOLEAN :
         IF ok
         THEN /\ host' = [host EXCEPT !["/dst"].files =
                             WithFile(@, LocalArchive, cfs[TmpArchive].data)]
              /\ xfer' = [xfer EXCEPT !.steps = Append(@, "fetch")]
              /\ pc' = "copy_out_extract"
              /\ UNCHANGED propagated
         ELSE /\ CopyOutRaise("fetch")
              /\ UNCHANGED host
    /\ CallerUnchanged
    /\ UNCHANGED <<stdin_pipe, call, ran, uuids, cfs, nCalls>>

\* Lines 262-268: the local tar -x of the fetched archive, in to_path.
CopyOutExtract ==
    /\ pc = "copy_out_extract"
    /\ \E ok \in BOOLEAN :
         IF ok
         THEN /\ LET archive == CHOOSE f \in host["/dst"].files : f[1] = LocalArchive
                 IN  host' = [host EXCEPT !["/dst"].files = TarExtract(archive[2], @)]
              /\ xfer' = [xfer EXCEPT !.steps = Append(@, "extract")]
              /\ pc' = "copy_out_unlink"
              /\ UNCHANGED propagated
         ELSE /\ CopyOutRaise("extract")
              /\ UNCHANGED host
    /\ CallerUnchanged
    /\ UNCHANGED <<stdin_pipe, call, ran, uuids, cfs, nCalls>>

\* A copy_out that leaves the fetched archive where it is.
KeptArchive(files) == files

\* Line 269: os.unlink of the fetched archive on the host.
Unlinked(files) == Without(files, LocalArchive)

CopyOutUnlink ==
    /\ pc = "copy_out_unlink"
    /\ host' = [host EXCEPT !["/dst"].files = Unlinked(@)]
    /\ xfer' = [xfer EXCEPT !.st = "returned", !.steps = Append(@, "unlink_local")]
    /\ pc' = "body"
    /\ CallerUnchanged
    /\ UNCHANGED <<stdin_pipe, call, ran, uuids, cfs, propagated, nCalls>>

(* ------------------------------ __exit__ ------------------------------ *)
\* Line 196, reached when the with block is left (with the error of the last
\* call in flight if it raised) or when __exit__ is called again afterwards.
ExitCloseStdin ==
    /\ (pc = "body" /\ AtRest(1)) \/ pc = "closed"
    /\ exc' = IF pc = "body" /\ call[1].st = "raised" THEN call[1].err ELSE NoErr
    /\ propagated' = NoErr
    /\ bash_stdin' = "closed"
    /\ pc' = "exit_terminate"
    /\ call' = [call EXCEPT ![1] = Forget(@)]
    /\ ran' = [ran EXCEPT ![1] = NotRun]
    /\ UNCHANGED <<docker_image, self_cwd, name, containers, engineLog, process,
                   stdin_pipe, bash_stdout, uuids, nCalls, nEnters>>
    /\ UNCHANGED <<oci_exe, host, cfs, xfer, reader, shell, probed>>

\* A teardown that goes on without waiting for the subprocess.
NotWaited == process

\* Lines 201-202: after terminate() and wait() the subprocess has exited.
Waited == "reaped"

\* Lines 198-207: terminate() and wait(); both do nothing to a subprocess
\* that was already waited for.
ExitTerminate ==
    /\ pc = "exit_terminate"
    /\ process' = Waited
    /\ stdin_pipe' = <<>>
    /\ pc' = "exit_remove"
    /\ UNCHANGED <<docker_image, self_cwd, name, containers, engineLog,
                   bash_stdin, bash_stdout, call, ran, exc, propagated, uuids,
                   nCalls, nEnters>>
    /\ UNCHANGED <<oci_exe, host, cfs, xfer, reader, shell, probed>>

\* A removal run with check=True.
RmChecked(ok) == ~ok

\* Lines 211-214: subprocess.run without check does not raise when the engine
\* exits nonzero.
RmRaises(ok) == FALSE

\* Lines 209-214: the assertion on the name, then the engine's rm --force -v,
\* whose exit status is not looked at.  With assertions compiled out
\* (python -O) a name of None reaches subprocess.run, which raises TypeError
\* before it starts any process.
ExitRemove ==
    /\ pc = "exit_remove"
    /\ IF name = None
       THEN /\ \E optimized \in BOOLEAN :
                 propagated' = Error(IF optimized THEN "TypeError" ELSE "AssertionError",
                                     <<>>, 0, <<>>)
            /\ pc' = "closed"
            /\ UNCHANGED <<engineLog, containers>>
       ELSE \E ok \in BOOLEAN :
              /\ engineLog' = Append(engineLog, [op |-> "rm", name |-> name, ok |-> ok,
                                                 argv |-> RmArgv])
              /\ containers' = IF ok THEN containers \ {name} ELSE containers
              /\ IF RmRaises(ok)
                 THEN /\ pc' = "closed"
                      /\ propagated' = Error("CalledProcessError", <<"rm">>, 1, <<>>)
                 ELSE /\ pc' = "exit_clear"
                      /\ UNCHANGED propagated
    /\ UNCHANGED <<docker_image, self_cwd, name, process, bash_stdin, stdin_pipe,
                   bash_stdout, call, ran, exc, uuids, nCalls, nEnters>>
    /\ UNCHANGED <<oci_exe, host, cfs, xfer, reader, shell, probed>>

\* A teardown that leaves the name in place.
KeptName == name

\* Line 215.
ClearedName == None

\* An __exit__ that returns a true value: the with statement drops the error.
Swallowed(e) == NoErr

\* __exit__ returns None (line 194), so the with statement re-raises the
\* error that was in flight when the block was left.
Reraised(e) == e

\* Line 215 and the return to the with statement.
ExitClearName ==
    /\ pc = "exit_clear"
    /\ name' = ClearedName
    /\ pc' = "closed"
    /\ propagated' = Reraised(exc)
    /\ UNCHANGED <<docker_image, self_cwd, containers, engineLog, process,
                   bash_stdin, stdin_pipe, bash_stdout, call, ran, exc, uuids,
                   nCalls, nEnters>>
    /\ UNCHANGED <<oci_exe, host, cfs, xfer, reader, shell, probed>>

(* --------------------------- specifications --------------------------- *)
\* One thread uses the session.
Next ==
    \/ \E image \in Images, cwd \in SessionCwds : Construct(image, cwd, "docker")
    \/ EnterCreate
    \/ EnterStart
    \/ EnterNoop
    \/ EnterNoopDone
    \/ EnterMkdirDone
    \/ BodyCall
    \/ ReadLine(1)
    \/ ShellExec
    \/ ShellDies
    \/ ExitCloseStdin
    \/ ExitTerminate
    \/ ExitRemove
    \/ ExitClearName

Spec == Init /\ [][Next]_vars

\* Two threads call on one open session: the owner enters once, then both
\* call while the block stays open and the shell stays up.
NextConc ==
    \/ \E image \in Images, cwd \in SessionCwds : Construct(image, cwd, "docker")
    \/ (pc = "constructed" /\ EnterCreate)
    \/ EnterStart
    \/ EnterNoop
    \/ EnterNoopDone
    \/ EnterMkdirDone
    \/ BodyCall
    \/ ThreadCall
    \/ \E c \in Callers : ReadLine(c)
    \/ ShellExec

SpecConc == Init /\ [][NextConc]_vars

\* One thread copies a directory and a file into the container of an open
\* session and the directory back out, with either engine.
NextCopy ==
    \/ \E image \in Images, cwd \in SessionCwds, exe \in OciExes : Construct(image, cwd, exe)
    \/ (pc = "constructed" /\ EnterCreate)
    \/ EnterStart
    \/ EnterNoop
    \/ EnterNoopDone
    \/ EnterMkdirDone
    \/ \E files \in Dirs : HostPrepare(files)
    \/ CopyIntoDir
    \/ CopyIntoTar
    \/ CopyIntoFile
    \/ CopyOutMkdir
    \/ CopyOutStream
    \/ CopyOutArchive
    \/ CopyOutFetch
    \/ CopyOutExtract
    \/ CopyOutUnlink
    \/ ReadLine(1)
    \/ ShellExec

SpecCopy == Init /\ [][NextCopy]_vars

\* One thread calls on an open session whose shell stays up; directories may
\* be missing and commands may leave readers of the input stream behind.
NextShell ==
    \/ \E image \in Images, cwd \in SessionCwds : Construct(image, cwd, "docker")
    \/ (pc = "constructed" /\ EnterCreate)
    \/ EnterStart
    \/ EnterNoop
    \/ EnterNoopDone
    \/ EnterMkdirDone
    \/ BodyCall
    \/ MissingDirCall
    \/ ProbeCall
    \/ ReadLine(1)
    \/ ShellExec
    \/ ShellExecDaemon
    \/ ReaderEcho

SpecShell == Init /\ [][NextShell]_vars

(* ------------------------------- claims ------------------------------- *)
Done(c) == call[c].st \in {"returned", "raised"}

\* What a finished call handed to its caller as output: the returned text, or
\* the output carried by the error.
Handed(c) == IF call[c].st = "returned" THEN call[c].output ELSE call[c].err.output

\* C1: a call whose remote command exited with status N returns normally if
\* and only if N = 0; otherwise it raises CalledProcessError with status N,
\* the call's argument vector and the output captured up to the footer.
ExitStatusPropagates ==
    \A c \in Callers :
        (Done(c) /\ ran[c].valid) =>
            /\ (call[c].st = "returned") <=> (ran[c].status = 0)
            /\ ran[c].status # 0 =>
                 /\ call[c].err.type = "CalledProcessError"
                 /\ call[c].err.returncode = ran[c].status
                 /\ call[c].err.cmd = call[c].args
                 /\ call[c].err.cmd \in ArgVectors \cup {<<"/bin/true">>, <<"mkdir", "-p", self_cwd>>}
                 /\ Encode(call[c].err.output) = IF call[c].capture THEN ran[c].out ELSE <<>>

\* C1 witness: a caller's command wrote output and exited 255, the call raised.
ExitStatusWitness ==
    /\ call[1].st = "raised"
    /\ call[1].err.type = "CalledProcessError"
    /\ call[1].err.returncode = 255
    /\ call[1].args \in ArgVectors
    /\ call[1].err.output # <<>>
    /\ ran[1].valid /\ ran[1].status = 255

\* C2: a capturing call hands back exactly the bytes its command wrote,
\* whatever the byte values and wherever the newlines are; what is stripped is
\* the footer at the end of the last line only.
CapturedOutputExact ==
    \A c \in Callers :
        (Done(c) /\ ran[c].valid /\ call[c].capture) => Encode(Handed(c)) = ran[c].out

\* C2 witness: the command wrote a newline and then a digit with no trailing
\* newline, so the footer line starts with a byte of output.
CapturedOutputWitness ==
    /\ call[1].st = "returned"
    /\ call[1].capture
    /\ ran[1].valid
    /\ ran[1].out = <<NL, 52>>
    /\ Encode(call[1].output) = <<NL, 52>>

\* C3: calls issued one after another each await and consume one footer, their
\* own: while a call reads after its command ran, the unread stream ends with
\* its footer; when it is over it has read one footer, got the bytes and the
\* status of its own command, and left the stream empty for the next call.
\* This holds for calls that follow a call that raised, too.
OneFooterPerCall ==
    \A c \in Callers :
        ran[c].valid =>
            /\ call[c].st = "reading" =>
                 /\ call[c].footers = 0
                 /\ EndsWith(bash_stdout, Footer(ran[c].status, call[c].token))
                 /\ call[c].output_io \o bash_stdout
                        = ran[c].out \o Footer(ran[c].status, call[c].token)
            /\ Done(c) =>
                 /\ call[c].footers = 1
                 /\ call[c].output_io = ran[c].out
                 /\ call[c].returncode = ran[c].status
                 /\ bash_stdout = <<>>
                 /\ stdin_pipe = <<>>

\* C3 witness: a call returned its command's output after the call before it
\* raised.
OneFooterWitness ==
    /\ call[1].st = "returned"
    /\ call[1].after = "raised"
    /\ ran[1].valid
    /\ ran[1].out # <<>>
    /\ nCalls = 2

\* The engine invocations of one kind made for container n.
Invocations(op, n) == {i \in DOMAIN engineLog : engineLog[i].op = op /\ engineLog[i].name = n}
LastOf(op) ==
    LET is == {i \in DOMAIN engineLog : engineLog[i].op = op}
    IN  IF is = {} THEN 0 ELSE CHOOSE i \in is : \A j \in is : j <= i

RemovalAtMostOnce ==
    /\ [](\A n \in 1..uuids : Cardinality(Invocations("rm", n)) <= 1)
    /\ [][(pc = "exit_remove" /\ name = None) =>
             /\ engineLog' = engineLog
             /\ containers' = containers
             /\ propagated'.type \in {"AssertionError", "TypeError"}]_vars

\* C5 witness: a second teardown has raised, one removal is on record.
SecondTeardownWitness ==
    /\ pc = "closed"
    /\ propagated.type = "AssertionError"
    /\ Cardinality({i \in DOMAIN engineLog : engineLog[i].op = "rm"}) = 1
    /\ nEnters = 1

\* C6: the directory change written for a call is that of its explicit
\* non-empty cwd whatever the session default; none for the empty cwd even
\* when the session has a default; for an unset cwd that of the session
\* default, and none when the session has no default.
CwdResolution ==
    \A i \in DOMAIN stdin_pipe :
        LET f == stdin_pipe[i]
        IN  /\ (f.cwd # Unset /\ f.cwd # "") => f.chdir = <<"cd", f.cwd>>
            /\ f.cwd = "" => f.chdir = <<>>
            /\ (f.cwd = Unset /\ self_cwd # Unset) => f.chdir = <<"cd", self_cwd>>
            /\ (f.cwd = Unset /\ self_cwd = Unset) => f.chdir = <<>>

\* C6 witness: a caller's call with the empty cwd on a session that has a
\* default directory was written with no directory change.
CwdResolutionWitness ==
    \E i \in DOMAIN stdin_pipe :
        /\ stdin_pipe[i].command \in ArgVectors
        /\ stdin_pipe[i].cwd = ""
        /\ self_cwd = "/work"
        /\ stdin_pipe[i].chdir = <<>>

\* C7: a call that read end-of-stream before its footer has ended with an
\* error that is not the command-failed error.
EofRaisesFramingError ==
    \A c \in Callers :
        call[c].eof =>
            /\ call[c].st = "raised"
            /\ call[c].err.type \notin {"none", "CalledProcessError"}

\* C9: the name is unset before creation and after teardown, and while the
\* name is unset no container created by the session exists in the engine.
UnsetNameMeansNotRunning ==
    /\ pc \in {"constructed", "closed"} => name = None
    /\ name = None => containers = {}

\* C10: construction with an empty image fails before any engine invocation;
\* when the engine's create exits nonzero __enter__ raises at once: create was
\* invoked once for the name, the start subprocess was not launched for it and
\* nothing was drawn or written after the name.
CreateFailurePropagates ==
    /\ pc = "init_failed" =>
         /\ propagated.type = "ValueError"
         /\ engineLog = <<>>
         /\ process = "none"
    /\ pc \in {"new", "constructed"} => engineLog = <<>>
    /\ \A i \in DOMAIN engineLog :
         (engineLog[i].op = "create" /\ ~engineLog[i].ok) =>
            LET n == engineLog[i].name
            IN  /\ Cardinality(Invocations("create", n)) = 1
                /\ Invocations("start", n) = {}
                /\ i = Len(engineLog) =>
                     /\ pc = "enter_failed"
                     /\ propagated = Error("CalledProcessError", <<"create">>, 1, <<>>)
                     /\ uuids = n
                     /\ stdin_pipe = <<>>
                     /\ n \notin containers

\* C10 witness: the create of a second __enter__ failed.
CreateFailureWitness ==
    /\ pc = "enter_failed"
    /\ nEnters = 2
    /\ Len(engineLog) > 1
    /\ engineLog[Len(engineLog)].op = "create"
    /\ ~engineLog[Len(engineLog)].ok

\* C8: at most one invocation is in flight on the session whatever the
\* interleaving of the two callers' calls: no fragment is written while
\* another call reads, every call that is over got the bytes and the status
\* of its own command, and a call whose command ran still has its footer
\* ahead of it on the stream.
ExclusiveInvocation ==
    /\ Cardinality({c \in Callers : call[c].st = "reading"}) <= 1
    /\ \A c \in Callers :
         ran[c].valid =>
            /\ Done(c) =>
                 /\ call[c].output_io = ran[c].out
                 /\ call[c].returncode = ran[c].status
            /\ call[c].st = "reading" =>
                 \E i \in 1..Len(bash_stdout) :
                     EndsWith(SubSeq(bash_stdout, 1, i), Footer(ran[c].status, call[c].token))

\* C11: once copy_into of the host directory into the container has returned,
\* a copy_out that returns leaves in the new host directory the files of the
\* source directory, name for name and byte for byte, and nothing else, with
\* the streamed variant and with the temp-archive variant.
CopyRoundTrip ==
    (xfer.op = "out" /\ xfer.st = "returned" /\ xfer.copied) =>
        /\ host["/dst"].kind = "dir"
        /\ host["/dst"].files = host["/src"].files

\* C11 witness: two files, one holding a newline and one a zero byte, came
\* back through the temp-archive variant.
CopyRoundTripWitness ==
    /\ xfer.op = "out" /\ xfer.st = "returned" /\ xfer.copied
    /\ oci_exe = "podman"
    /\ host["/src"].files = {<<"a", <<NL>>>>, <<"b", <<0>>>>}
    /\ host["/dst"].files = {<<"a", <<NL>>>>, <<"b", <<0>>>>}

\* C12: a temp-archive copy_out that returned has archived, fetched, extracted
\* and then deleted the temp archive inside the container, which no longer
\* exists there.
RemoteArchiveDeleted ==
    (xfer.op = "out" /\ xfer.st = "returned" /\ oci_exe = "podman") =>
        /\ SubSeq(xfer.steps, 1, 4) = <<"mkdir", "archive", "fetch", "extract">>
        /\ cfs[TmpArchive].kind = "absent"

\* C13: on every path that leaves the session, the failure of __enter__ after
\* the create included, the engine's rm has been invoked for every container
\* whose create succeeded.
CreatedIsRemoved ==
    pc \in {"enter_failed", "closed"} =>
        \A i \in DOMAIN engineLog :
            (engineLog[i].op = "create" /\ engineLog[i].ok) =>
                Invocations("rm", engineLog[i].name) # {}

\* The number of lines of s that end with the token and a newline.
TokenLines(s, token) ==
    Cardinality({i \in 1..Len(s) : EndsWith(SubSeq(s, 1, i), token \o <<NL>>)})

\* C14: for every fragment the shell ran, whether its cd failed, its command
\* failed or both succeeded, the footer was written once, after the command's
\* output: while the call reads, its footer with the command's status ends the
\* unread stream, so a line is there to read, and no other line carries the
\* token; once the call is over it has read that one footer and got the
\* command's status.
FooterAlwaysEmitted ==
    \A c \in Callers :
        ran[c].valid =>
            /\ call[c].st = "reading" =>
                 /\ EndsWith(bash_stdout, Footer(ran[c].status, call[c].token))
                 /\ TokenLines(bash_stdout, call[c].token) = 1
                 /\ FirstNL(bash_stdout) > 0
                 /\ call[c].footers = 0
            /\ call[c].st # "reading" =>
                 /\ Done(c)
                 /\ call[c].footers = 1
                 /\ call[c].returncode = ran[c].status
                 /\ TokenLines(bash_stdout, call[c].token) = 0

\* C14 witness: the cd of a call failed, its command failed too, and the call
\* ended with the command's status.
FooterAfterFailedCdWitness ==
    /\ ran[1].valid /\ ran[1].cd_failed /\ ran[1].status = 255
    /\ call[1].st = "raised"
    /\ call[1].err.type = "CalledProcessError"
    /\ call[1].err.returncode = 255

\* C15: the tokens drawn on a session differ from one another, and a line of
\* the output source that ends with the token of the call that is reading is
\* the footer the trailer of its fragment printed.
TokenOnlyInFooter ==
    /\ \A j, k \in 1..uuids : j # k => Token(j) # Token(k)
    /\ \A c \in Callers :
         call[c].st = "reading" =>
            \A i \in 1..Len(bash_stdout) :
                EndsWith(SubSeq(bash_stdout, 1, i), call[c].token \o <<NL>>) =>
                    /\ ran[c].valid
                    /\ EndsWith(SubSeq(bash_stdout, 1, i),
                                Footer(ran[c].status, call[c].token))

\* The last engine invocation on record.
LastInvocation == engineLog[Len(engineLog)]

\* C16: in __enter__ the no-op is the first invocation written after the
\* subprocess is launched and nothing else is sent until its footer is read;
\* the mkdir -p of the configured directory is the second; both are written
\* with no directory change and are over before the block is entered, where
\* the configured directory exists.
EnterOrdering ==
    /\ [](/\ pc = "enter_sync" => (stdin_pipe = <<>> /\ uuids = name)
          /\ pc = "enter_noop" =>
               /\ call[1].args = <<"/bin/true">>
               /\ call[1].token = Token(name + 1)
               /\ uuids = name + 1
          /\ pc = "enter_mkdir" =>
               /\ Truthy(self_cwd)
               /\ call[1].args = <<"mkdir", "-p", self_cwd>>
               /\ call[1].token = Token(name + 2)
               /\ uuids = name + 2
          /\ pc \in {"enter_noop", "enter_mkdir"} =>
               \A i \in DOMAIN stdin_pipe :
                   /\ i = 1
                   /\ stdin_pipe[i].command = call[1].args
                   /\ stdin_pipe[i].chdir = <<>>
          /\ pc = "body" =>
               /\ uuids >= name + (IF Truthy(self_cwd) THEN 2 ELSE 1)
               /\ Truthy(self_cwd) => cfs[self_cwd].kind = "dir"
               /\ \A i \in DOMAIN stdin_pipe : stdin_pipe[i].token # Token(name + 1))
    /\ [][(pc \in {"enter_noop", "enter_mkdir"} /\ pc' \in {"enter_mkdir", "body"} /\ pc' # pc) =>
             /\ call[1].st = "returned"
             /\ call[1].footers = 1
             /\ stdin_pipe = <<>>
             /\ bash_stdout = <<>>]_vars

\* C16 witness: the first call of the block falls back to the configured
\* directory, which is there.
EnterOrderingWitness ==
    /\ pc = "body"
    /\ nCalls = 1
    /\ uuids = name + 3
    /\ stdin_pipe # <<>>
    /\ stdin_pipe[1].cwd = Unset
    /\ stdin_pipe[1].chdir = <<"cd", "/work">>
    /\ cfs["/work"].kind = "dir"

\* C17: the engine's rm is invoked with --force, -v and the common arguments,
\* for the session's name, after the input sink was closed and the subprocess
\* was terminated and waited for; the name is cleared only after that
\* invocation; the subprocess is terminated only after the sink was closed.
TeardownOrder ==
    /\ [][(Len(engineLog') > Len(engineLog) /\ engineLog'[Len(engineLog')].op = "rm") =>
             /\ bash_stdin = "closed"
             /\ process = "reaped"
             /\ name # None
             /\ name' = name
             /\ engineLog'[Len(engineLog')].name = name
             /\ engineLog'[Len(engineLog')].argv = <<"rm">> \o CommonArgs \o <<"--force", "-v">>]_vars
    /\ [][(name # None /\ name' = None) =>
             /\ engineLog # <<>>
             /\ LastInvocation.op = "rm"
             /\ LastInvocation.name = name
             /\ bash_stdin = "closed"
             /\ process = "reaped"]_vars
    /\ [][(process = "running" /\ process' = "reaped") => bash_stdin = "closed"]_vars

\* C17 witness: a block that was entered has been torn down.
TeardownOrderWitness ==
    /\ pc = "closed"
    /\ name = None
    /\ process = "reaped"
    /\ bash_stdin = "closed"
    /\ engineLog # <<>>
    /\ LastInvocation.op = "rm"
    /\ LastInvocation.ok

\* C18: a removal that exits nonzero raises nothing: the removal step changes
\* neither the error in flight nor what is raised, and when __exit__ returns
\* after it the caller receives the error that was in flight when the block
\* was left, or no error if there was none.
RemovalFailureNotRaised ==
    /\ [][(pc = "exit_remove" /\ name # None) =>
             /\ pc' \in {"exit_remove", "exit_clear"}
             /\ propagated' = propagated
             /\ exc' = exc]_vars
    /\ [][(pc = "exit_clear" /\ ~LastInvocation.ok /\ pc' # pc) =>
             /\ pc' = "closed"
             /\ propagated' = exc]_vars

\* C18 witness: the block was left by a failed command, the removal failed,
\* and the caller received the command's error.
RemovalFailureWitness ==
    /\ pc = "closed"
    /\ engineLog # <<>>
    /\ LastInvocation.op = "rm"
    /\ ~LastInvocation.ok
    /\ exc.type = "CalledProcessError"
    /\ exc.cmd \in ArgVectors
    /\ propagated = exc

\* s is the start of t.
IsPrefix(s, t) == Len(s) <= Len(t) /\ SubSeq(t, 1, Len(s)) = s

CopyIntoOrdering ==
    /\ [](xfer.op = "into" =>
            /\ xfer.steps \in {<<"mkdir">>, <<"mkdir", "tar">>}
            /\ xfer.steps = <<"mkdir", "tar">> =>
                 /\ call[1].st = "returned"
                 /\ call[1].args = <<"mkdir", "-p", "/data">>
                 /\ call[1].footers = 1
            /\ call[1].st = "raised" => xfer.steps = <<"mkdir">>
            /\ (call[1].st = "raised" /\ pc = "body") =>
                 /\ xfer.st = "raised"
                 /\ propagated = call[1].err)
    /\ [][(xfer'.op = "into_file" /\ xfer' # xfer) =>
             /\ xfer'.steps = <<"cat">>
             /\ uuids' = uuids
             /\ stdin_pipe' = stdin_pipe
             /\ call' = call]_vars

\* C20 witness: the mkdir -p call of a copy_into raised and copy_into ended
\* with its error, no transfer started.
CopyIntoOrderingWitness ==
    /\ xfer.op = "into"
    /\ xfer.st = "raised"
    /\ xfer.steps = <<"mkdir">>
    /\ pc = "body"
    /\ call[1].st = "raised"
    /\ call[1].err.type = "CalledProcessError"
    /\ propagated = call[1].err

\* The names for which the session launched a start subprocess (158-172).
\* wait() (202) is called on self.process only, and the rm for self.name
\* follows it: a subprocess whose name has no rm on record was not waited for
\* unless it is the one self.process refers to.
Launched == {n \in 1..uuids : Invocations("start", n) # {}}

\* C21: whatever the sequence of __enter__ and __exit__ on one session, every
\* container of the session that exists in the engine is the one self.name
\* refers to, unless its removal was invoked, and every subprocess the session
\* launched is the one of self.name, unless it was waited for and its
\* container's removal invoked: an __enter__ on a session that was not torn
\* down leaves no earlier container or subprocess behind.
AtMostOneOwned ==
    /\ \A n \in containers : n = name \/ Invocations("rm", n) # {}
    /\ \A n \in Launched : n = name \/ Invocations("rm", n) # {}

\* C22: when the cd of a fragment failed the command still ran, in the
\* directory the shell is in, which is the one it started in: pwd wrote that
\* directory and exited zero.  The footer carries the command's status, so the
\* call returns exactly when the command exited zero and raises
\* CalledProcessError with the command's status otherwise; the failed cd by
\* itself raises nothing.
FailedCdStillRuns ==
    \A c \in Callers :
        (ran[c].valid /\ ran[c].cd_failed) =>
            /\ call[c].args = Pwd =>
                 /\ ran[c].out = Utf8(shell.dir) \o <<NL>>
                 /\ shell.dir = ImageShell.dir
                 /\ ran[c].status = 0
            /\ Done(c) =>
                 /\ call[c].footers = 1
                 /\ call[c].returncode = ran[c].status
                 /\ (call[c].st = "returned") <=> (ran[c].status = 0)
                 /\ call[c].st = "raised" =>
                      /\ call[c].err.type = "CalledProcessError"
                      /\ call[c].err.cmd = call[c].args
                      /\ call[c].err.returncode = ran[c].status

\* C22 witness: a pwd called with a cwd that is not in the container returned
\* the shell's directory.
FailedCdWitness ==
    /\ probed # <<>>
    /\ probed[Len(probed)].cwd = "/missing"
    /\ ran[1].valid /\ ran[1].cd_failed
    /\ call[1].args = Pwd
    /\ call[1].st = "returned"
    /\ call[1].output = <<47, NL>>

\* C23: the persistent shell stays as it started, whatever fragments it ran:
\* a probe called with the empty cwd and no env, after any calls with any cwd
\* and env, ran in the directory and with the environment the shell started
\* with, where TEST_VAR is not set, on a session with a default directory too.
ShellStateKept ==
    /\ shell = ImageShell
    /\ (/\ probed # <<>>
        /\ probed[Len(probed)] = [cwd |-> "", env |-> NoEnv]
        /\ call[1].args \in Probes
        /\ ran[1].valid) =>
           /\ ~ran[1].cd_failed
           /\ ran[1].status = 0
           /\ call[1].args = Pwd => ran[1].out = <<47, NL>>
           /\ call[1].args = EchoTestVar => ran[1].out = <<NL>>
           /\ Done(1) => call[1].st = "returned"

\* C23 witness: a pwd with cwd /opt and TEST_VAR=1 returned, then a pwd with the
\* empty cwd and no env returned the shell's directory, on a session whose
\* default directory is /work.
ShellStateKeptWitness ==
    /\ Len(probed) = 2
    /\ probed[1] = [cwd |-> "/opt", env |-> [given |-> TRUE, items |-> <<<<"TEST_VAR", "1">>>>]]
    /\ probed[2] = [cwd |-> "", env |-> NoEnv]
    /\ self_cwd = "/work"
    /\ call[1].args = Pwd
    /\ call[1].after = "returned"
    /\ call[1].st = "returned"
    /\ call[1].output = <<47, NL>>

====
